---- MODULE Spec2Model ----
(***************************************************************************)
(* Model of daily_news_bot.py: one run of the bot.  main() checks the      *)
(* configuration, send_news() collects six categories concurrently         *)
(* (collect_all_news, asyncio.gather), formats the summary, sends it, and  *)
(* then sends one detail message per non-empty news category, each after   *)
(* a one second sleep.                                                     *)
(*                                                                         *)
(* Text is a sequence of one-character strings.  A page is what a source   *)
(* answers: an empty body, markup the parser rejects, or a document with   *)
(* the candidates its selector matches, in document order.                 *)
(***************************************************************************)
EXTENDS Integers, Sequences, FiniteSets, TLC

VARIABLES
  BOT_TOKEN,        \* os.environ.get('BOT_TOKEN'): "" when absent
  CHAT_ID,          \* os.environ.get('CHAT_ID'): "" when absent
  pc,               \* where main()/send_news() is
  tpc,              \* per collection task: "new", "fetch", "fetch2", "done"
  outcome,          \* per task: how its (first) fetch resolved
  outcome2,         \* how the second fetch of get_market_indices resolved
  results,          \* per task: its local news_list / indices
  news_data,        \* the dict collect_all_news returned (<<>> before)
  summary_message,  \* format_news_message(news_data) (<<>> before)
  detailed_msg,     \* format_detailed_message of the current category
  k,                \* position of the detail loop in categories (1..5)
  log,              \* the sleeps and send attempts so far, in order
  exit_code,        \* -1 while running, then the process's exit status
  fetched,          \* the requests session.get was called for, in order
  xcat, xcands, xout, xdone   \* the extractor applied to one candidate list

vars == <<BOT_TOKEN, CHAT_ID, pc, tpc, outcome, outcome2, results, news_data,
          summary_message, detailed_msg, k, log, exit_code, fetched,
          xcat, xcands, xout, xdone>>

runvars == <<BOT_TOKEN, CHAT_ID, pc, tpc, outcome, outcome2, results,
             news_data, summary_message, detailed_msg, k, log, exit_code,
             fetched>>

xvars == <<xcat, xcands, xout, xdone>>

----------------------------------------------------------------------------
(* Bounds of the model *)

\* longest candidate list over every kind of candidate
MaxCands == 2
\* longest candidate list over titled / untitled candidates only
MaxLongCands == 11
\* number of distinct documents a news source may answer in a run
MaxDocs == 1
\* longest list of rows of the world index table
MaxRows == 6
\* longest category sequence handed to the formatters
MaxItems == 11

(* Constants of the program *)

TopN == 10
SummaryN == 5
DetailN == 10
TitleMax == 60

----------------------------------------------------------------------------
(* Text *)

Min(a, b) == IF a < b THEN a ELSE b

\* a text of n characters in which neighbours differ
Rep(n) == [i \in 1..n |-> IF i % 2 = 1 THEN "x" ELSE "y"]

Ellipsis == <<".", ".", ".">>

Origin == <<"http", "s://finance.naver.com">>

RECURSIVE LStrip(_)
LStrip(s) == IF s # <<>> /\ Head(s) = " " THEN LStrip(Tail(s)) ELSE s

RECURSIVE RStrip(_)
RStrip(s) ==
  IF s # <<>> /\ s[Len(s)] = " " THEN RStrip(SubSeq(s, 1, Len(s) - 1)) ELSE s

\* get_text(strip=True) of an element holding one string
get_text(s) == RStrip(LStrip(s))

\* link.startswith('http')
startswith_http(link) == link # <<>> /\ link[1] = "http"

\* Truncate with `>=` for `>`
TruncateFrom60(title) ==
  IF Len(title) >= TitleMax THEN SubSeq(title, 1, TitleMax) \o Ellipsis
  ELSE title

\* title[:60] + '...' if len(title) > 60 else title
Truncate(title) ==
  IF Len(title) > TitleMax THEN SubSeq(title, 1, TitleMax) \o Ellipsis
  ELSE title

----------------------------------------------------------------------------
(* Categories *)

NewsKeys == <<"economy", "stock", "world_stock", "commodity", "crypto">>

NewsSet == {NewsKeys[i] : i \in 1..Len(NewsKeys)}

Keys == NewsSet \cup {"indices"}

----------------------------------------------------------------------------
(* The extractors' loops *)

\* the link an extractor stores for a candidate's href
LinkOf(c, href) ==
  CASE c = "stock" -> Origin \o href
    [] c = "world_stock" ->
         IF ~startswith_http(href) THEN Origin \o href ELSE href
    [] OTHER -> href

\* the test that guards news_list.append
Keeps(c, title, link) ==
  IF c = "economy" THEN title # <<>> /\ link # <<>> ELSE title # <<>>

\* RankOf as a counter of the kept entries would number them
RankOfKept(idx, news_list) == Len(news_list) + 1

\* RankOf as enumerate(headlines) would number them
RankOfZeroBased(idx, news_list) == idx - 1

\* enumerate(headlines, 1): the rank of the candidate at position idx of
\* the slice, whatever news_list holds by then
RankOf(idx, news_list) == idx

\* the slice [:10] of the selected elements
Headlines(cands) == SubSeq(cands, 1, Min(TopN, Len(cands)))

RECURSIVE Loop(_, _, _, _)
Loop(c, headlines, idx, news_list) ==
  IF idx > Len(headlines) THEN news_list
  ELSE LET title == get_text(headlines[idx].text)
           link == LinkOf(c, headlines[idx].href)
       IN  Loop(c, headlines, idx + 1,
                IF Keeps(c, title, link)
                THEN Append(news_list,
                            [rank |-> RankOf(idx, news_list), title |-> Truncate(title),
                             link |-> link])
                ELSE news_list)

ExtractNews(c, cands) == Loop(c, Headlines(cands), 1, <<>>)

----------------------------------------------------------------------------
(* Pages and fetch outcomes *)

None == [kind |-> "none", body |-> <<>>]

EmptyBody == [kind |-> "empty", body |-> <<>>]

Malformed == [kind |-> "malformed", body |-> <<>>]

Doc(body) == [kind |-> "doc", body |-> body]

Cand(text, href) == [text |-> text, href |-> href]

RelHref == <<"/item">>

AbsHref == <<"http", "://host/item">>

\* the documents a news source answers in a run: [A, "", C], then an
\* untitled candidate alone, then i titled candidates
RunDoc(i) ==
  CASE i = 1 -> <<Cand(<<"A">>, RelHref), Cand(<<" ">>, RelHref),
                  Cand(<<"C">>, AbsHref)>>
    [] i = 2 -> <<Cand(<<>>, RelHref)>>
    [] OTHER -> [j \in 1..i |-> Cand(<<"T">>, AbsHref)]

RunPages == {EmptyBody, Malformed} \cup {Doc(RunDoc(i)) : i \in 1..MaxDocs}

Quote(name, value) == [name |-> name, value |-> value]

\* the domestic index page: the texts of #KOSPI_now and #KOSDAQ_now, in a
\* record whose has_* fields say whether select_one found the element
DomesticPages ==
  {Malformed,
   Doc([has_kospi |-> TRUE, kospi |-> <<"2500">>,
        has_kosdaq |-> FALSE, kosdaq |-> <<>>])}

Row(has_name, name, has_point, point) ==
  [has_name |-> has_name, name |-> name, has_point |-> has_point,
   point |-> point]

\* the world index page: the rows '.data_lst tr' selects
WorldPages ==
  {Malformed,
   Doc(<<Row(TRUE, <<"DOW">>, TRUE, <<"39000">>),
         Row(TRUE, <<"NASDAQ">>, FALSE, <<>>)>>)}

NetFailures == {[kind |-> "error", page |-> None],
                [kind |-> "timeout", page |-> None]}

Answers(pages) == {[kind |-> "ok", page |-> p] : p \in pages}

NoOutcome == [kind |-> "pending", page |-> None]

\* fetch_page: the text of the response, or None on any exception
fetch_page(o) == IF o.kind = "ok" THEN o.page ELSE None

\* `if html:` is false for None and for the empty string
Truthy(html) == html.kind \notin {"none", "empty"}

\* BeautifulSoup(html, 'html.parser') / select raise on rejected markup.
\* This is where an extractor's try block can be left by an exception:
\* get_text, get and the string operations of the loop body raise on no
\* element select returns, so nothing has been appended by then.
ParseRaises(html) == html.kind = "malformed"

----------------------------------------------------------------------------
(* The six coroutines, from the point where their fetch resolves *)

Returned(val) == [exc |-> FALSE, val |-> val]

\* what a news coroutine hands back when its try block was left by an
\* exception or its fetch gave nothing: the news_list built so far
NewsFailValue == <<>>

\* get_naver_economy_news .. get_crypto_news
get_news(c, o) ==
  LET html == fetch_page(o)
  IN  IF Truthy(html)
      THEN IF ParseRaises(html) THEN Returned(NewsFailValue)
           ELSE Returned(ExtractNews(c, html.body))
      ELSE Returned(NewsFailValue)

DictPut(d, name, value) ==
  IF \E i \in 1..Len(d) : d[i].name = name
  THEN [i \in 1..Len(d) |->
          IF d[i].name = name THEN Quote(name, value) ELSE d[i]]
  ELSE Append(d, Quote(name, value))

WorldRowsN == 5

RECURSIVE WorldLoop(_, _, _)
WorldLoop(rows, i, indices) ==
  IF i > Min(WorldRowsN, Len(rows)) THEN indices
  ELSE WorldLoop(rows, i + 1,
                 IF rows[i].has_name /\ rows[i].has_point
                 THEN DictPut(indices, get_text(rows[i].name),
                              get_text(rows[i].point))
                 ELSE indices)

\* get_market_indices, first try block
domestic_indices(o, indices) ==
  LET html == fetch_page(o)
  IN  IF Truthy(html) /\ ~ParseRaises(html)
      THEN LET d  == html.body
               i1 == IF d.has_kospi
                     THEN DictPut(indices, <<"KOSPI">>, get_text(d.kospi))
                     ELSE indices
           IN  IF d.has_kosdaq
               THEN DictPut(i1, <<"KOSDAQ">>, get_text(d.kosdaq))
               ELSE i1
      ELSE indices

\* world_indices with `indices = {}` set again before the second try block
world_indices_reset(o, indices) ==
  LET html == fetch_page(o)
  IN  IF Truthy(html) /\ ~ParseRaises(html)
      THEN WorldLoop(html.body, 1, <<>>)
      ELSE <<>>

\* get_market_indices, second try block
world_indices(o, indices) ==
  LET html == fetch_page(o)
  IN  IF Truthy(html) /\ ~ParseRaises(html)
      THEN WorldLoop(html.body, 1, indices)
      ELSE indices

----------------------------------------------------------------------------
(* Fetch targets *)

WorldUrl == "https://finance.naver.com/world/"

\* the url of the (first) fetch of each coroutine; the two search queries are
\* Korean words in the source and are abbreviated here
Url(c) ==
  CASE c = "economy" -> "https://news.naver.com/section/101"
    [] c = "stock" -> "https://finance.naver.com/news/mainnews.naver"
    [] c = "world_stock" -> "https://finance.naver.com/world/"
    [] c = "commodity" -> "https://search.naver.com/search.naver?where=news&query=commodity"
    [] c = "crypto" -> "https://search.naver.com/search.naver?where=news&query=crypto"
    [] OTHER -> "https://finance.naver.com/sise/"

\* a call of fetch_page by the coroutine of category `by`
Request(by, url) == [by |-> by, url |-> url]

\* the order of the awaitables handed to asyncio.gather
GatherOrder == NewsKeys \o <<"indices">>

\* the requests issued as the six tasks run up to their first await
FirstRequests ==
  [i \in 1..Len(GatherOrder) |-> Request(GatherOrder[i], Url(GatherOrder[i]))]

----------------------------------------------------------------------------
(* collect_all_news *)

\* GatherSettled as a wait for the first completed task would have it
GatherSettledAny == \E c \in Keys : tpc[c] = "done"

\* asyncio.gather hands over once every awaitable has a result
GatherSettled == \A c \in Keys : tpc[c] = "done"

\* ResultOrEmpty with the isinstance test inverted
ResultOrEmptyInverted(r) == IF r.exc THEN r.val ELSE <<>>

\* results[i] if not isinstance(results[i], Exception) else [] / {}
ResultOrEmpty(r) == IF ~r.exc THEN r.val ELSE <<>>

\* CollectionResult as a dict holding the categories that yielded something
CollectionResultSparse(res) ==
  [c \in {d \in Keys : res[d].val # <<>>} |-> res[c].val]

\* the dict literal collect_all_news returns
CollectionResult(res) == [c \in Keys |-> ResultOrEmpty(res[c])]

NoResults == [c \in Keys |-> Returned(<<>>)]

NoOutcomes == [c \in Keys |-> NoOutcome]

\* gather wraps the six coroutines in tasks; each runs up to session.get
GatherStart ==
  /\ pc = "gather"
  /\ pc' = "collect"
  /\ tpc' = [c \in Keys |-> "fetch"]
  /\ fetched' = fetched \o FirstRequests
  /\ UNCHANGED <<BOT_TOKEN, CHAT_ID, outcome, outcome2, results, news_data,
                 summary_message, detailed_msg, k, log, exit_code>>
  /\ UNCHANGED xvars

\* NewsTaskResolve with one more request after a fetch that failed
NewsTaskResolveRetry(c, o) ==
  /\ tpc[c] = "fetch"
  /\ IF o.kind \in {"error", "timeout"}
        /\ Cardinality({i \in 1..Len(fetched) : fetched[i].by = c}) < 2
     THEN /\ fetched' = Append(fetched, Request(c, Url(c)))
          /\ UNCHANGED <<tpc, outcome, results>>
     ELSE /\ tpc' = [tpc EXCEPT ![c] = "done"]
          /\ outcome' = [outcome EXCEPT ![c] = o]
          /\ results' = [results EXCEPT ![c] = get_news(c, o)]
          /\ UNCHANGED fetched
  /\ UNCHANGED <<BOT_TOKEN, CHAT_ID, pc, outcome2, news_data,
                 summary_message, detailed_msg, k, log, exit_code>>
  /\ UNCHANGED xvars

\* the fetch of a news coroutine resolves; the coroutine runs to its return
NewsTaskResolve(c, o) ==
  /\ tpc[c] = "fetch"
  /\ tpc' = [tpc EXCEPT ![c] = "done"]
  /\ outcome' = [outcome EXCEPT ![c] = o]
  /\ results' = [results EXCEPT ![c] = get_news(c, o)]
  /\ UNCHANGED <<BOT_TOKEN, CHAT_ID, pc, outcome2, news_data,
                 summary_message, detailed_msg, k, log, exit_code>>
  /\ UNCHANGED fetched
  /\ UNCHANGED xvars

NewsTask ==
  \E c \in NewsSet : \E o \in NetFailures \cup Answers(RunPages) :
    NewsTaskResolve(c, o)

\* the domestic fetch resolves with an outcome over pages; the coroutine
\* runs up to the world fetch
IndicesDomesticOver(pages) ==
  /\ tpc["indices"] = "fetch"
  /\ \E o \in NetFailures \cup Answers(pages) :
       /\ outcome' = [outcome EXCEPT !["indices"] = o]
       /\ results' = [results EXCEPT
                        !["indices"] = Returned(domestic_indices(o, <<>>))]
  /\ tpc' = [tpc EXCEPT !["indices"] = "fetch2"]
  /\ fetched' = Append(fetched, Request("indices", WorldUrl))
  /\ UNCHANGED <<BOT_TOKEN, CHAT_ID, pc, outcome2, news_data,
                 summary_message, detailed_msg, k, log, exit_code>>
  /\ UNCHANGED xvars

IndicesDomestic == IndicesDomesticOver(DomesticPages)

\* the world fetch resolves with an outcome over pages; the coroutine runs
\* to its return
IndicesWorldOver(pages) ==
  /\ tpc["indices"] = "fetch2"
  /\ \E o \in NetFailures \cup Answers(pages) :
       /\ outcome2' = o
       /\ results' = [results EXCEPT
                        !["indices"] =
                          Returned(world_indices(o, results["indices"].val))]
  /\ tpc' = [tpc EXCEPT !["indices"] = "done"]
  /\ UNCHANGED <<BOT_TOKEN, CHAT_ID, pc, outcome, news_data,
                 summary_message, detailed_msg, k, log, exit_code>>
  /\ UNCHANGED fetched
  /\ UNCHANGED xvars

IndicesWorld == IndicesWorldOver(WorldPages)

\* gather returns the results list and collect_all_news its dict
GatherReturn ==
  /\ pc = "collect"
  /\ GatherSettled
  /\ news_data' = CollectionResult(results)
  /\ pc' = "collected"
  /\ UNCHANGED <<BOT_TOKEN, CHAT_ID, tpc, outcome, outcome2, results,
                 summary_message, detailed_msg, k, log, exit_code>>
  /\ UNCHANGED fetched
  /\ UNCHANGED xvars

----------------------------------------------------------------------------
(* Messages: a message is the sequence of its lines *)

Line(kind, key, rank, text, ref) ==
  [kind |-> kind, key |-> key, rank |-> rank, text |-> text, ref |-> ref]

Header == Line("header", "", 0, <<>>, <<>>)

Footer == Line("footer", "", 0, <<>>, <<>>)

BlockTitle(kind, key) == Line(kind, key, 0, <<>>, <<>>)

\* what format_detailed_message returns for an empty category
MsgNone == <<>>

\* news_data.get(key, default)
Get(d, key, default) == IF key \in DOMAIN d THEN d[key] ELSE default

Prefix(s, n) == SubSeq(s, 1, Min(n, Len(s)))

IndicesBlock(data) ==
  LET indices == Get(data, "indices", <<>>)
  IN  IF indices # <<>>
      THEN <<BlockTitle("indices_title", "indices")>>
           \o [i \in 1..Len(indices) |->
                 Line("index", "indices", 0, indices[i].name,
                      indices[i].value)]
           \o <<BlockTitle("separator", "indices")>>
      ELSE <<>>

\* SummaryBlock without the `if news_list:` test
SummaryBlockAlways(data, key) ==
  LET news_list == Get(data, key, <<>>)
      shown == Prefix(news_list, SummaryN)
  IN  <<BlockTitle("title", key)>>
      \o [i \in 1..Len(shown) |->
            Line("item", key, shown[i].rank, shown[i].title, <<>>)]
      \o <<BlockTitle("blank", key)>>

SummaryBlock(data, key) ==
  LET news_list == Get(data, key, <<>>)
      shown == Prefix(news_list, SummaryN)
  IN  IF news_list # <<>>
      THEN <<BlockTitle("title", key)>>
           \o [i \in 1..Len(shown) |->
                 Line("item", key, shown[i].rank, shown[i].title, <<>>)]
           \o <<BlockTitle("blank", key)>>
      ELSE <<>>

RECURSIVE SummaryBlocks(_, _)
SummaryBlocks(data, i) ==
  IF i > Len(NewsKeys) THEN <<>>
  ELSE SummaryBlock(data, NewsKeys[i]) \o SummaryBlocks(data, i + 1)

format_news_message(data) ==
  <<Header>> \o IndicesBlock(data) \o SummaryBlocks(data, 1) \o <<Footer>>

\* format_detailed_message over news_list instead of news_list[:10]
format_detailed_message_noslice(data, category) ==
  LET news_list == Get(data, category, <<>>)
  IN  IF news_list = <<>> THEN MsgNone
      ELSE <<BlockTitle("title", category)>>
           \o [i \in 1..Len(news_list) |->
                 Line("link", category, news_list[i].rank, news_list[i].title,
                      news_list[i].link)]

\* format_detailed_message without the `if not news_list: return None`
format_detailed_message_nonone(data, category) ==
  LET news_list == Get(data, category, <<>>)
      shown == Prefix(news_list, DetailN)
  IN  <<BlockTitle("title", category)>>
      \o [i \in 1..Len(shown) |->
            Line("link", category, shown[i].rank, shown[i].title,
                 shown[i].link)]

format_detailed_message(data, category) ==
  LET news_list == Get(data, category, <<>>)
      shown == Prefix(news_list, DetailN)
  IN  IF news_list = <<>> THEN MsgNone
      ELSE <<BlockTitle("title", category)>>
           \o [i \in 1..Len(shown) |->
                 Line("link", category, shown[i].rank, shown[i].title,
                      shown[i].link)]

----------------------------------------------------------------------------
(* main and send_news *)

Ev(ev, key, ok) == [ev |-> ev, key |-> key, ok |-> ok]

\* DetailKey over the categories list written in the opposite order
DetailKeyReversed(i) == NewsKeys[Len(NewsKeys) + 1 - i]

\* the key of the i-th entry of the categories list of send_news
DetailKey(i) == NewsKeys[i]

\* the exit status of the process once main() is left at pcv
ExitOf(pcv) ==
  CASE pcv \in {"exit", "failed"} -> 1
    [] pcv = "done" -> 0
    [] OTHER -> -1

\* only the first of the two checks of main()
ConfigPresentTokenOnly == BOT_TOKEN # ""

\* `if not BOT_TOKEN` / `if not CHAT_ID`
ConfigPresent == BOT_TOKEN # "" /\ CHAT_ID # ""

ConfigMissing ==
  /\ pc = "main"
  /\ ~ConfigPresent
  /\ pc' = "exit"
  /\ exit_code' = ExitOf("exit")
  /\ UNCHANGED <<BOT_TOKEN, CHAT_ID, tpc, outcome, outcome2, results,
                 news_data, summary_message, detailed_msg, k, log>>
  /\ UNCHANGED fetched
  /\ UNCHANGED xvars

ConfigOk ==
  /\ pc = "main"
  /\ ConfigPresent
  /\ pc' = "gather"
  /\ UNCHANGED <<BOT_TOKEN, CHAT_ID, tpc, outcome, outcome2, results,
                 news_data, summary_message, detailed_msg, k, log, exit_code>>
  /\ UNCHANGED fetched
  /\ UNCHANGED xvars

\* the summary is formatted and bot.send_message is awaited; the results
\* list and the tasks of collect_all_news are gone with its frame
SummaryStart ==
  /\ pc = "collected"
  /\ summary_message' = format_news_message(news_data)
  /\ log' = Append(log, Ev("send_begin", "summary", TRUE))
  /\ pc' = "summary"
  /\ outcome' = NoOutcomes
  /\ outcome2' = NoOutcome
  /\ results' = NoResults
  /\ UNCHANGED <<BOT_TOKEN, CHAT_ID, tpc, news_data, detailed_msg, k,
                 exit_code>>
  /\ UNCHANGED fetched
  /\ UNCHANGED xvars

\* where send_news goes when the summary send returns
AfterSummaryOk == "loop"

SummaryOk ==
  /\ pc = "summary"
  /\ log' = Append(log, Ev("send_end", "summary", TRUE))
  /\ pc' = AfterSummaryOk
  /\ k' = 1
  /\ UNCHANGED <<BOT_TOKEN, CHAT_ID, tpc, outcome, outcome2, results,
                 news_data, summary_message, detailed_msg, exit_code>>
  /\ UNCHANGED fetched
  /\ UNCHANGED xvars

\* AfterSummaryFail without the `raise` of the except clause
AfterSummaryFailSwallow == "loop"

\* where send_news goes when the summary send raises: the except clause
\* re-raises, main and asyncio.run let it through
AfterSummaryFail == "failed"

SummaryFail ==
  /\ pc = "summary"
  /\ log' = Append(log, Ev("send_end", "summary", FALSE))
  /\ pc' = AfterSummaryFail
  /\ k' = 1
  /\ exit_code' = ExitOf(AfterSummaryFail)
  /\ UNCHANGED <<BOT_TOKEN, CHAT_ID, tpc, outcome, outcome2, results,
                 news_data, summary_message, detailed_msg>>
  /\ UNCHANGED fetched
  /\ UNCHANGED xvars

\* `if detailed_msg:` is false: next category
\* LoopSkip that stays on the category it found empty
LoopSkipStuck ==
  /\ pc = "loop"
  /\ k <= Len(NewsKeys)
  /\ format_detailed_message(news_data, DetailKey(k)) = MsgNone
  /\ detailed_msg' = MsgNone
  /\ UNCHANGED <<BOT_TOKEN, CHAT_ID, pc, tpc, outcome, outcome2, results,
                 news_data, summary_message, k, log, exit_code>>
  /\ UNCHANGED fetched
  /\ UNCHANGED xvars

LoopSkip ==
  /\ pc = "loop"
  /\ k <= Len(NewsKeys)
  /\ format_detailed_message(news_data, DetailKey(k)) = MsgNone
  /\ detailed_msg' = MsgNone
  /\ k' = k + 1
  /\ UNCHANGED <<BOT_TOKEN, CHAT_ID, pc, tpc, outcome, outcome2, results,
                 news_data, summary_message, log, exit_code>>
  /\ UNCHANGED fetched
  /\ UNCHANGED xvars

\* LoopSleep without the sleep: bot.send_message is awaited at once
LoopNoSleep ==
  /\ pc = "loop"
  /\ k <= Len(NewsKeys)
  /\ format_detailed_message(news_data, DetailKey(k)) # MsgNone
  /\ detailed_msg' = format_detailed_message(news_data, DetailKey(k))
  /\ log' = Append(log, Ev("send_begin", DetailKey(k), TRUE))
  /\ pc' = "send"
  /\ UNCHANGED <<BOT_TOKEN, CHAT_ID, tpc, outcome, outcome2, results,
                 news_data, summary_message, k, exit_code>>
  /\ UNCHANGED fetched
  /\ UNCHANGED xvars

\* `if detailed_msg:` is true: asyncio.sleep(1) is awaited
LoopSleep ==
  /\ pc = "loop"
  /\ k <= Len(NewsKeys)
  /\ format_detailed_message(news_data, DetailKey(k)) # MsgNone
  /\ detailed_msg' = format_detailed_message(news_data, DetailKey(k))
  /\ log' = Append(log, Ev("sleep", DetailKey(k), TRUE))
  /\ pc' = "sleep"
  /\ UNCHANGED <<BOT_TOKEN, CHAT_ID, tpc, outcome, outcome2, results,
                 news_data, summary_message, k, exit_code>>
  /\ UNCHANGED fetched
  /\ UNCHANGED xvars

\* the sleep is over: bot.send_message is awaited
SleepDone ==
  /\ pc = "sleep"
  /\ log' = Append(log, Ev("send_begin", DetailKey(k), TRUE))
  /\ pc' = "send"
  /\ UNCHANGED <<BOT_TOKEN, CHAT_ID, tpc, outcome, outcome2, results,
                 news_data, summary_message, detailed_msg, k, exit_code>>
  /\ UNCHANGED fetched
  /\ UNCHANGED xvars

DetailOk ==
  /\ pc = "send"
  /\ log' = Append(log, Ev("send_end", DetailKey(k), TRUE))
  /\ pc' = "loop"
  /\ k' = k + 1
  /\ UNCHANGED <<BOT_TOKEN, CHAT_ID, tpc, outcome, outcome2, results,
                 news_data, summary_message, detailed_msg, exit_code>>
  /\ UNCHANGED fetched
  /\ UNCHANGED xvars

\* AfterDetailFail with the try around the whole loop
AfterDetailFailBreak == "done"

\* AfterDetailFail with a `raise` in the except clause
AfterDetailFailRaise == "failed"

\* where send_news goes when a detail send raises: the except clause logs
AfterDetailFail == "loop"

DetailFail ==
  /\ pc = "send"
  /\ log' = Append(log, Ev("send_end", DetailKey(k), FALSE))
  /\ pc' = AfterDetailFail
  /\ k' = k + 1
  /\ exit_code' = ExitOf(AfterDetailFail)
  /\ UNCHANGED <<BOT_TOKEN, CHAT_ID, tpc, outcome, outcome2, results,
                 news_data, summary_message, detailed_msg>>
  /\ UNCHANGED fetched
  /\ UNCHANGED xvars

\* the loop is over: send_news and main return, the process exits 0
LoopEnd ==
  /\ pc = "loop"
  /\ k > Len(NewsKeys)
  /\ pc' = "done"
  /\ exit_code' = ExitOf("done")
  /\ UNCHANGED <<BOT_TOKEN, CHAT_ID, tpc, outcome, outcome2, results,
                 news_data, summary_message, detailed_msg, k, log>>
  /\ UNCHANGED fetched
  /\ UNCHANGED xvars

----------------------------------------------------------------------------
(* One run of the process *)

Init ==
  /\ BOT_TOKEN \in {"", "token"}
  /\ CHAT_ID \in {"", "chat"}
  /\ pc = "main"
  /\ tpc = [c \in Keys |-> "new"]
  /\ outcome = NoOutcomes
  /\ outcome2 = NoOutcome
  /\ results = NoResults
  /\ news_data = <<>>
  /\ summary_message = <<>>
  /\ detailed_msg = MsgNone
  /\ k = 1
  /\ log = <<>>
  /\ exit_code = -1
  /\ fetched = <<>>
  /\ xcat = "economy"
  /\ xcands = <<>>
  /\ xout = <<>>
  /\ xdone = FALSE

Next ==
  \/ ConfigMissing
  \/ ConfigOk
  \/ GatherStart
  \/ NewsTask
  \/ IndicesDomestic
  \/ IndicesWorld
  \/ GatherReturn
  \/ SummaryStart
  \/ SummaryOk
  \/ SummaryFail
  \/ LoopSkip
  \/ LoopSleep
  \/ SleepDone
  \/ DetailOk
  \/ DetailFail
  \/ LoopEnd

Spec == Init /\ [][Next]_vars

\* the event loop runs whatever is ready: a fetch resolves at the latest
\* when its timeout of 15 seconds expires, an awaited send or sleep returns,
\* and the code between two awaits runs to the next one
FairSpec == Spec /\ WF_vars(Next)

----------------------------------------------------------------------------
(* One extractor applied to one candidate list *)

Texts == {<<>>, <<" ">>, <<"A">>, <<" ", "B", " ">>, Rep(TitleMax),
          Rep(TitleMax + 1), Rep(TitleMax + 2)}

Hrefs == {<<>>, RelHref, AbsHref}

Cands == {Cand(t, h) : t \in Texts, h \in Hrefs}

TitledOrNot == {Cand(<<"A">>, RelHref), Cand(<<>>, RelHref)}

SeqsUpTo(S, n) == UNION {[1..m -> S] : m \in 0..n}

CandLists == SeqsUpTo(Cands, MaxCands) \cup SeqsUpTo(TitledOrNot, MaxLongCands)

IdleRun ==
  /\ BOT_TOKEN = "token"
  /\ CHAT_ID = "chat"
  /\ pc = "idle"
  /\ tpc = [c \in Keys |-> "new"]
  /\ outcome = NoOutcomes
  /\ outcome2 = NoOutcome
  /\ results = NoResults
  /\ news_data = <<>>
  /\ summary_message = <<>>
  /\ detailed_msg = MsgNone
  /\ k = 1
  /\ log = <<>>
  /\ exit_code = -1
  /\ fetched = <<>>

ExtractInit ==
  /\ IdleRun
  /\ xcat \in NewsSet
  /\ xcands \in CandLists
  /\ xout = <<>>
  /\ xdone = FALSE

\* the try block of the extractor of xcat on a document with xcands
Extract ==
  /\ ~xdone
  /\ xout' = ExtractNews(xcat, xcands)
  /\ xdone' = TRUE
  /\ UNCHANGED <<xcat, xcands>>
  /\ UNCHANGED runvars

ExtractNext == Extract

ExtractSpec == ExtractInit /\ [][ExtractNext]_vars

----------------------------------------------------------------------------
(* get_market_indices alone, on any pair of pages *)

\* the domestic index pages: each of the two elements found or not
AllDomesticPages ==
  {EmptyBody, Malformed} \cup
  {Doc([has_kospi |-> a, kospi |-> <<" ", "2500">>,
        has_kosdaq |-> b, kosdaq |-> <<"850", " ">>]) : a, b \in BOOLEAN}

\* the row at position i of the table: complete, without '.name', without
\* '.point', or complete under the name KOSPI
RowAt(kind, i) ==
  CASE kind = "full" -> Row(TRUE, <<" ">> \o Rep(i), TRUE, <<"1">> \o Rep(i))
    [] kind = "noname" -> Row(FALSE, <<>>, TRUE, <<"1">> \o Rep(i))
    [] kind = "nopoint" -> Row(TRUE, Rep(i), FALSE, <<>>)
    [] OTHER -> Row(TRUE, <<"KOSPI">>, TRUE, <<"9">> \o Rep(i))

RowKinds == {"full", "noname", "nopoint"}

\* the world index pages: any table of up to MaxRows rows, and one whose
\* only row is named KOSPI
AllWorldPages ==
  {EmptyBody, Malformed, Doc(<<RowAt("kospi", 1)>>)} \cup
  UNION {{Doc([i \in 1..m |-> RowAt(f[i], i)]) : f \in [1..m -> RowKinds]} :
           m \in 0..MaxRows}

IndicesInit ==
  /\ BOT_TOKEN = "token"
  /\ CHAT_ID = "chat"
  /\ pc = "idle"
  /\ tpc = [c \in Keys |-> IF c = "indices" THEN "fetch" ELSE "new"]
  /\ outcome = NoOutcomes
  /\ outcome2 = NoOutcome
  /\ results = NoResults
  /\ news_data = <<>>
  /\ summary_message = <<>>
  /\ detailed_msg = MsgNone
  /\ k = 1
  /\ log = <<>>
  /\ exit_code = -1
  /\ fetched = <<Request("indices", Url("indices"))>>
  /\ xcat = "economy"
  /\ xcands = <<>>
  /\ xout = <<>>
  /\ xdone = FALSE

IndicesNext ==
  \/ IndicesDomesticOver(AllDomesticPages)
  \/ IndicesWorldOver(AllWorldPages)

IndicesSpec == IndicesInit /\ [][IndicesNext]_vars

----------------------------------------------------------------------------
(* The two formatters alone, on any collection result *)

Item(i) ==
  [rank |-> i, title |-> <<"T">> \o Rep(i), link |-> AbsHref \o Rep(i)]

Items(n) == [i \in 1..n |-> Item(i)]

\* lengths around the two cuts of the formatters; the formatters take any
\* sequence, a collected one has at most TopN items
ItemLens == {0, 1, SummaryN, SummaryN + 1, DetailN, MaxItems}

IndexMaps ==
  {<<>>, <<Quote(<<"KOSPI">>, <<"2500">>)>>,
   <<Quote(<<"KOSPI">>, <<"2500">>), Quote(<<"DOW">>, <<"39000">>)>>}

CollectionResults ==
  {[c \in Keys |-> IF c = "indices" THEN ix ELSE Items(n[c])] :
     n \in [NewsSet -> ItemLens], ix \in IndexMaps}

FormatInit ==
  /\ BOT_TOKEN = "token"
  /\ CHAT_ID = "chat"
  /\ pc = "format"
  /\ tpc = [c \in Keys |-> "done"]
  /\ outcome = NoOutcomes
  /\ outcome2 = NoOutcome
  /\ results = NoResults
  /\ news_data \in CollectionResults
  /\ summary_message = <<>>
  /\ detailed_msg = MsgNone
  /\ k = 1
  /\ log = <<>>
  /\ exit_code = -1
  /\ fetched = <<>>
  /\ xcat = "economy"
  /\ xcands = <<>>
  /\ xout = <<>>
  /\ xdone = FALSE

\* summary_message = self.format_news_message(news_data)
FormatSummary ==
  /\ pc = "format"
  /\ summary_message' = format_news_message(news_data)
  /\ pc' = "format_detail"
  /\ UNCHANGED <<BOT_TOKEN, CHAT_ID, tpc, outcome, outcome2, results,
                 news_data, detailed_msg, k, log, exit_code>>
  /\ UNCHANGED fetched
  /\ UNCHANGED xvars

\* detailed_msg = self.format_detailed_message(news_data, key, title)
FormatDetail ==
  /\ pc = "format_detail"
  /\ \E i \in 1..Len(NewsKeys) :
       /\ k' = i
       /\ detailed_msg' = format_detailed_message(news_data, DetailKey(i))
  /\ pc' = "formatted"
  /\ UNCHANGED <<BOT_TOKEN, CHAT_ID, tpc, outcome, outcome2, results,
                 news_data, summary_message, log, exit_code>>
  /\ UNCHANGED fetched
  /\ UNCHANGED xvars

FormatNext == FormatSummary \/ FormatDetail

FormatSpec == FormatInit /\ [][FormatNext]_vars

----------------------------------------------------------------------------
(* Properties of collect_all_news *)

\* a fetch that gave nothing to extract from: it raised, timed out, or
\* answered markup the parser rejects
Fails(o) ==
  \/ o.kind \in {"error", "timeout"}
  \/ o.kind = "ok" /\ o.page.kind = "malformed"

TaskFailed(c) ==
  IF c = "indices" THEN Fails(outcome["indices"]) /\ Fails(outcome2)
  ELSE Fails(outcome[c])

\* C1: whatever the six tasks' outcomes, collect_all_news returns (it can
\* return as soon as the six are settled, and nothing before the first send
\* ends the run), its result has exactly the six keys, and every category
\* whose task failed maps to the empty sequence / mapping.
C1_CollectAllContainsFailures ==
  /\ (pc = "collect" /\ \A c \in Keys : tpc[c] = "done") => ENABLED GatherReturn
  /\ pc \in {"gather", "collect", "collected"} => exit_code = -1
  /\ pc = "failed" => log # <<>>
  /\ pc = "collected" =>
       /\ DOMAIN news_data = Keys
       /\ \A c \in Keys : TaskFailed(c) => news_data[c] = <<>>

C1_Witness ==
  /\ pc = "collected"
  /\ \A c \in Keys : TaskFailed(c)
  /\ outcome["economy"].kind = "error"
  /\ outcome["stock"].kind = "timeout"
  /\ outcome["world_stock"].kind = "ok"
  /\ outcome["indices"].kind = "timeout"
  /\ outcome2.kind = "ok"

\* what category c is worth given the outcome of its own fetch alone
OwnValue(c) ==
  IF outcome[c].kind = "ok" /\ outcome[c].page.kind = "doc"
  THEN ExtractNews(c, outcome[c].page.body)
  ELSE <<>>

OwnIndices == world_indices(outcome2, domestic_indices(outcome["indices"], <<>>))

AnAnswer == [kind |-> "ok", page |-> Doc(RunDoc(1))]

\* C2: the value collect_all_news stores for a category is the one its own
\* fetch and extraction give, whatever happened to the five others, and a
\* task whose fetch is pending can still resolve whatever the others did.
C2_FailureContainedPerTask ==
  /\ pc = "collected" =>
       /\ \A c \in NewsSet : news_data[c] = OwnValue(c)
       /\ news_data["indices"] = OwnIndices
  /\ \A c \in NewsSet :
       tpc[c] = "fetch" => pc = "collect" /\ ENABLED NewsTaskResolve(c, AnAnswer)
  /\ tpc["indices"] = "fetch" => pc = "collect" /\ ENABLED IndicesDomestic
  /\ tpc["indices"] = "fetch2" => pc = "collect" /\ ENABLED IndicesWorld

C2_Witness ==
  /\ pc = "collected"
  /\ outcome["economy"].kind = "error"
  /\ outcome["stock"].kind = "ok"
  /\ news_data["stock"] = ExtractNews("stock", RunDoc(1))
  /\ Len(news_data["stock"]) = 2
  /\ outcome["world_stock"].page.kind = "malformed"
  /\ outcome["commodity"].kind = "timeout"
  /\ Fails(outcome["indices"])
  /\ news_data["indices"] # <<>>

----------------------------------------------------------------------------
(* Properties of send_news *)

InLog(e) == \E i \in 1..Len(log) : log[i] = e

SummaryFailed == InLog(Ev("send_end", "summary", FALSE))

SummarySucceeded == InLog(Ev("send_end", "summary", TRUE))

Attempted(key) == InLog(Ev("send_begin", key, TRUE))

DetailFailed ==
  \E i \in 1..Len(log) :
    log[i].ev = "send_end" /\ log[i].key # "summary" /\ ~log[i].ok

\* C3: once the summary send has failed, the run holds no sleep and no
\* detail send (the log ends with the failed summary send) and the failure
\* has left send_news: the process ends with status 1.
C3_SummaryFailureStopsRun ==
  SummaryFailed =>
    /\ pc = "failed"
    /\ exit_code = 1
    /\ log = <<Ev("send_begin", "summary", TRUE),
               Ev("send_end", "summary", FALSE)>>

C3_Witness ==
  /\ pc = "failed"
  /\ SummaryFailed
  /\ news_data["economy"] # <<>>
  /\ news_data["crypto"] # <<>>

\* C4: after a successful summary send, every non-empty category the loop
\* has passed had its send attempted, whichever detail sends failed; the
\* loop is left only after the fifth category, with status 0; no failed
\* detail send ends the run as failed.
C4_DetailFailuresIsolated ==
  /\ pc \in {"loop", "sleep", "send", "done"} =>
       \A i \in 1..Len(NewsKeys) :
         (i < k /\ news_data[NewsKeys[i]] # <<>>) => Attempted(NewsKeys[i])
  /\ pc = "done" => k = Len(NewsKeys) + 1 /\ exit_code = 0
  /\ DetailFailed => pc # "failed" /\ exit_code # 1

C4_Witness ==
  /\ pc = "done"
  /\ InLog(Ev("send_end", "economy", TRUE))
  /\ InLog(Ev("send_end", "stock", FALSE))
  /\ InLog(Ev("send_end", "world_stock", TRUE))
  /\ InLog(Ev("send_end", "commodity", FALSE))
  /\ Attempted("crypto")


\* position of a key in the dispatch order: the summary, then categories
KeyIndex(key) ==
  IF key = "summary" THEN 0
  ELSE CHOOSE i \in 1..Len(NewsKeys) : NewsKeys[i] = key

\* C5: the first event of a run's log is the summary send; every send is
\* completed before the next event (one send in flight at most); sends
\* begin in the order summary, economy, stock, world_stock, commodity,
\* crypto; a detail send begins only after the send of every earlier
\* non-empty category has ended.
C5_DispatchOrder ==
  /\ log # <<>> => log[1] = Ev("send_begin", "summary", TRUE)
  /\ \A p \in 1..Len(log) :
       log[p].ev = "send_begin" /\ p < Len(log) =>
         log[p + 1].ev = "send_end" /\ log[p + 1].key = log[p].key
  /\ \A p \in 1..Len(log) :
       log[p].ev = "send_end" =>
         p > 1 /\ log[p - 1].ev = "send_begin" /\ log[p - 1].key = log[p].key
  /\ \A p, q \in 1..Len(log) :
       (p < q /\ log[p].ev = "send_begin" /\ log[q].ev = "send_begin") =>
         KeyIndex(log[p].key) < KeyIndex(log[q].key)
  /\ \A q \in 1..Len(log) :
       (log[q].ev = "send_begin" /\ log[q].key # "summary") =>
         \A j \in 1..(KeyIndex(log[q].key) - 1) :
           news_data[NewsKeys[j]] # <<>> =>
             \E p \in 1..(q - 1) :
               log[p].ev = "send_end" /\ log[p].key = NewsKeys[j]

C5_Witness ==
  /\ pc = "send"
  /\ k = Len(NewsKeys)
  /\ \A c \in NewsSet : Attempted(c)
  /\ InLog(Ev("send_end", "stock", FALSE))

\* C6: a detail send begins right after the sleep of its own category,
\* which began right after the previous send ended; a send that ended is
\* followed by a sleep, never directly by a send; a category with an empty
\* result has neither a sleep nor a send.
C6_DelayBeforeEveryDetail ==
  /\ \A p \in 1..Len(log) :
       (log[p].ev = "send_begin" /\ log[p].key # "summary") =>
         /\ p >= 3
         /\ log[p - 1] = Ev("sleep", log[p].key, TRUE)
         /\ log[p - 2].ev = "send_end"
  /\ \A p \in 1..Len(log) :
       log[p].ev = "sleep" => p >= 2 /\ log[p - 1].ev = "send_end"
  /\ \A p \in 1..Len(log) :
       log[p].ev = "send_end" /\ p < Len(log) => log[p + 1].ev = "sleep"
  /\ \A p \in 1..Len(log) :
       log[p].key # "summary" => news_data[log[p].key] # <<>>

C6_Witness ==
  /\ pc = "done"
  /\ news_data["economy"] # <<>>
  /\ news_data["stock"] = <<>>
  /\ news_data["world_stock"] # <<>>
  /\ \E p \in 1..Len(log) :
       /\ log[p] = Ev("send_end", "economy", FALSE)
       /\ log[p + 1] = Ev("sleep", "world_stock", TRUE)
       /\ log[p + 2] = Ev("send_begin", "world_stock", TRUE)

\* C7: a run with both configuration values ends delivered (status 0)
\* exactly when its summary send succeeded and failed (status 1) exactly
\* when its summary send failed: it stops nowhere else, a succeeded summary
\* send excludes the failed state whatever was collected and whichever
\* detail sends failed, and a failed one is the only way into it.
C7_TerminalState ==
  /\ pc = "done" => SummarySucceeded /\ exit_code = 0
  /\ pc = "failed" => SummaryFailed /\ exit_code = 1
  /\ SummarySucceeded =>
       pc \in {"loop", "sleep", "send", "done"} /\ exit_code \in {-1, 0}
  /\ SummaryFailed => pc = "failed"
  /\ (ConfigPresent /\ exit_code = 1) => SummaryFailed
  /\ (ConfigPresent /\ ~ENABLED Next) => pc \in {"done", "failed"}

C7_Witness ==
  /\ pc = "done"
  /\ exit_code = 0
  /\ \A c \in Keys : news_data[c] = <<>> <=> c # "crypto"
  /\ InLog(Ev("send_end", "crypto", FALSE))

\* C8: whatever lies after the return of collect_all_news (its result, the
\* formatted summary, any send or sleep) exists only once the six tasks are
\* done, and then no step of a collection task is possible any more.
C8_ReturnsAfterAllSettled ==
  (\/ pc \in {"collected", "summary", "loop", "sleep", "send", "done", "failed"}
   \/ news_data # <<>>
   \/ summary_message # <<>>
   \/ log # <<>>) =>
    /\ \A c \in Keys : tpc[c] = "done"
    /\ ~ENABLED NewsTask
    /\ ~ENABLED IndicesDomestic
    /\ ~ENABLED IndicesWorld

C8_Witness ==
  /\ pc = "summary"
  /\ \A c \in Keys : tpc[c] = "done"
  /\ news_data["economy"] # <<>>
  /\ news_data["commodity"] = <<>>
  /\ news_data["indices"] = <<>>

----------------------------------------------------------------------------
(* Properties of the extractors *)

Slice == 1..Min(TopN, Len(xcands))

Titled(i) == get_text(xcands[i].text) # <<>>

Ranks == [j \in 1..Len(xout) |-> xout[j].rank]

\* C9: every emitted item carries as rank the position of its candidate in
\* the first-10 slice of the candidates and that candidate's title; an
\* untitled candidate is not emitted and every titled candidate with a link
\* is, under its own position; so there are at most 10 items, with ranks in
\* 1..10 that increase strictly; [A, "", C] gives the ranks [1, 3].
C9_RankPrecedesFilter ==
  xdone =>
    /\ Len(xout) <= TopN
    /\ \A j \in 1..Len(xout) :
         /\ xout[j].rank \in Slice
         /\ xout[j].rank \in 1..TopN
         /\ Titled(xout[j].rank)
         /\ xout[j].title = Truncate(get_text(xcands[xout[j].rank].text))
    /\ \A j \in 1..(Len(xout) - 1) : xout[j].rank < xout[j + 1].rank
    /\ \A i \in Slice :
         (Titled(i) /\ xcands[i].href # <<>>) =>
           \E j \in 1..Len(xout) : xout[j].rank = i
    /\ (/\ Len(xcands) = 3
        /\ Titled(1) /\ ~Titled(2) /\ Titled(3)
        /\ xcands[1].href # <<>> /\ xcands[3].href # <<>>) => Ranks = <<1, 3>>

C9_Witness ==
  /\ xdone
  /\ Len(xcands) > TopN
  /\ \A i \in 1..Len(xcands) : Titled(i) <=> i \notin {2, 5}
  /\ Ranks = <<1, 3, 4, 6, 7, 8, 9, 10>>

\* C10 as the data model states it: the item at position i has rank i.
C10_RankIsPosition ==
  xdone => \A j \in 1..Len(xout) : xout[j].rank = j

\* C10, amended: ranks are unique within the sequence and increase in the
\* order of extraction; the item at position i has a rank of at least i,
\* and exactly i when every candidate before its own was emitted.
C10_RankAtLeastPosition ==
  xdone =>
    /\ \A i, j \in 1..Len(xout) : i # j => xout[i].rank # xout[j].rank
    /\ \A i, j \in 1..Len(xout) : i < j => xout[i].rank < xout[j].rank
    /\ \A j \in 1..Len(xout) :
         /\ xout[j].rank >= j
         /\ xout[j].rank = j <=>
              \A i \in 1..(xout[j].rank - 1) :
                \E h \in 1..Len(xout) : xout[h].rank = i

C10_Witness ==
  /\ xdone
  /\ xcat = "economy"
  /\ Len(xout) = 2
  /\ xout[1].rank = 2
  /\ xout[2].rank = 4


\* C11: every item an extractor emits has a non-empty title and a non-empty
\* link, that is, a candidate whose title or whose link is empty is dropped,
\* for each of the five news categories.
C11_TitleAndLinkNonEmpty ==
  xdone =>
    \A j \in 1..Len(xout) : xout[j].title # <<>> /\ xout[j].link # <<>>

\* the href of the candidate an emitted item comes from
HrefOf(j) == xcands[xout[j].rank].href

\* C12: the link of every emitted item is an absolute URL: where the
\* candidate has a link, the stored link starts with a scheme, a link
\* relative to the origin having been resolved against it, for each of the
\* five news categories.
C12_LinksAbsolute ==
  xdone =>
    \A j \in 1..Len(xout) : HrefOf(j) # <<>> => startswith_http(xout[j].link)

\* the text of the candidate an emitted item comes from
TextOf(j) == get_text(xcands[xout[j].rank].text)

\* C16: the title of an emitted item whose text has more than 60
\* characters is the first 60 of them followed by the three dots, and the
\* title of any other item is its text unchanged.
C16_TitleTruncation ==
  xdone =>
    \A j \in 1..Len(xout) :
      LET raw == TextOf(j)
          t   == xout[j].title
      IN  /\ Len(raw) > TitleMax =>
               /\ Len(t) = TitleMax + 3
               /\ \A i \in 1..TitleMax : t[i] = raw[i]
               /\ \A i \in (TitleMax + 1)..(TitleMax + 3) : t[i] = "."
          /\ Len(raw) <= TitleMax => t = raw

C16_Witness ==
  /\ xdone
  /\ Len(xout) = 2
  /\ Len(TextOf(1)) = TitleMax + 1
  /\ Len(xout[1].title) = TitleMax + 3
  /\ Len(TextOf(2)) = TitleMax
  /\ xout[2].title = Rep(TitleMax)

----------------------------------------------------------------------------
(* Properties of get_market_indices *)

Pairs(d) == {d[i] : i \in 1..Len(d)}

\* the pairs the domestic page holds
DomesticPairs(o) ==
  IF o.kind = "ok" /\ o.page.kind = "doc"
  THEN {Quote(<<"KOSPI">>, get_text(o.page.body.kospi)) :
          x \in {y \in {1} : o.page.body.has_kospi}}
       \cup {Quote(<<"KOSDAQ">>, get_text(o.page.body.kosdaq)) :
               x \in {y \in {1} : o.page.body.has_kosdaq}}
  ELSE {}

\* the pairs the first five rows of the world page hold
WorldPairs(o) ==
  IF o.kind = "ok" /\ o.page.kind = "doc"
  THEN {Quote(get_text(o.page.body[i].name), get_text(o.page.body[i].point)) :
          i \in {j \in 1..Min(WorldRowsN, Len(o.page.body)) :
                   o.page.body[j].has_name /\ o.page.body[j].has_point}}
  ELSE {}

IndicesSettled ==
  tpc["indices"] = "done" /\ outcome["indices"].kind # "pending"

\* C13: once get_market_indices has returned, it returned a mapping (it did
\* not raise); if the domestic fetch failed and the world one did not, the
\* mapping holds every pair of the world page, and the other way round; the
\* mapping is empty only if neither page gave a pair.
C13_IndicesPartialFailure ==
  IndicesSettled =>
    /\ ~results["indices"].exc
    /\ (Fails(outcome["indices"]) /\ ~Fails(outcome2)) =>
         WorldPairs(outcome2) \subseteq Pairs(results["indices"].val)
    /\ (~Fails(outcome["indices"]) /\ Fails(outcome2)) =>
         DomesticPairs(outcome["indices"]) \subseteq Pairs(results["indices"].val)
    /\ results["indices"].val = <<>> =>
         DomesticPairs(outcome["indices"]) = {} /\ WorldPairs(outcome2) = {}

C13_Witness ==
  /\ IndicesSettled
  /\ outcome["indices"].kind = "ok"
  /\ Cardinality(DomesticPairs(outcome["indices"])) = 2
  /\ outcome2.kind = "timeout"
  /\ Len(results["indices"].val) = 2

----------------------------------------------------------------------------
(* Properties of the formatters *)

RECURSIVE LinesOf(_, _, _)
\* the lines of message m of one kind and one key, in order
LinesOf(m, kind, key) ==
  IF m = <<>> THEN <<>>
  ELSE (IF Head(m).kind = kind /\ Head(m).key = key THEN <<Head(m)>> ELSE <<>>)
       \o LinesOf(Tail(m), kind, key)

\* where the one line of that kind and key is in m (0 if there is none)
PosOf(m, kind, key) ==
  IF \E p \in 1..Len(m) : m[p].kind = kind /\ m[p].key = key
  THEN CHOOSE p \in 1..Len(m) : m[p].kind = kind /\ m[p].key = key
  ELSE 0

Shown(c, n) == Min(n, Len(news_data[c]))

NonEmptyNews == {c \in NewsSet : news_data[c] # <<>>}

RECURSIVE SumOver(_, _)
SumOver(S, n) ==
  IF S = {} THEN 0
  ELSE LET c == CHOOSE x \in S : TRUE
       IN  2 + Shown(c, n) + SumOver(S \ {c}, n)

\* C14: the summary starts with the header and ends with the footer; it has
\* the indices title, one line per pair in order and the separator exactly
\* when the mapping is non-empty; for each news category it has a title
\* line, followed by the lines of the first min(5, len) items in order and
\* a blank line, exactly when the sequence is non-empty; the blocks come in
\* the fixed order and nothing else is in it; on an all-empty result it is
\* the header followed by the footer.
C14_SummaryShape ==
  summary_message # <<>> =>
    LET m  == summary_message
        ix == news_data["indices"]
    IN  /\ m[1] = Header
        /\ m[Len(m)] = Footer
        /\ Len(m) = 2 + (IF ix # <<>> THEN 2 + Len(ix) ELSE 0)
                      + SumOver(NonEmptyNews, SummaryN)
        /\ Len(LinesOf(m, "indices_title", "indices")) = (IF ix # <<>> THEN 1 ELSE 0)
        /\ LinesOf(m, "index", "indices")
             = [i \in 1..Len(ix) |->
                  Line("index", "indices", 0, ix[i].name, ix[i].value)]
        /\ ix # <<>> => m[2] = BlockTitle("indices_title", "indices")
        /\ \A c \in NewsSet :
             /\ Len(LinesOf(m, "title", c)) = (IF news_data[c] # <<>> THEN 1 ELSE 0)
             /\ LinesOf(m, "item", c)
                  = [i \in 1..Shown(c, SummaryN) |->
                       Line("item", c, news_data[c][i].rank,
                            news_data[c][i].title, <<>>)]
             /\ news_data[c] # <<>> =>
                  \A i \in 1..Shown(c, SummaryN) :
                    m[PosOf(m, "title", c) + i].kind = "item"
                    /\ m[PosOf(m, "title", c) + i].key = c
        /\ \A c, d \in NonEmptyNews :
             KeyIndex(c) < KeyIndex(d) =>
               PosOf(m, "title", c) < PosOf(m, "title", d)
        /\ (ix = <<>> /\ NonEmptyNews = {}) => m = <<Header, Footer>>

C14_Witness ==
  /\ pc = "format_detail"
  /\ Len(news_data["economy"]) = SummaryN + 1
  /\ news_data["stock"] = <<>>
  /\ Len(news_data["world_stock"]) = 1
  /\ news_data["commodity"] = <<>>
  /\ Len(news_data["crypto"]) = DetailN
  /\ Len(news_data["indices"]) = 2
  /\ Len(summary_message) = 2 + 4 + 7 + 3 + 7

\* C15: the detail message of a category is none exactly when its sequence
\* is empty; otherwise it is a title line followed by exactly
\* min(10, len) lines, the i-th carrying the rank, title and link of the
\* i-th item.
C15_DetailShape ==
  pc \in {"formatted", "sleep", "send"} =>
    LET c == DetailKey(k)
        l == news_data[c]
    IN  /\ detailed_msg = MsgNone <=> l = <<>>
        /\ l # <<>> =>
             /\ Len(detailed_msg) = 1 + Min(DetailN, Len(l))
             /\ detailed_msg[1] = BlockTitle("title", c)
             /\ \A i \in 1..Min(DetailN, Len(l)) :
                  detailed_msg[i + 1]
                    = Line("link", c, l[i].rank, l[i].title, l[i].link)

C15_Witness ==
  /\ pc = "formatted"
  /\ k = 3
  /\ Len(news_data[DetailKey(k)]) > DetailN
  /\ Len(detailed_msg) = DetailN + 1
  /\ detailed_msg[DetailN + 1].rank = DetailN

----------------------------------------------------------------------------
(* Properties of the run as a whole *)

\* one of the two environment values is absent
ValueAbsent == BOT_TOKEN = "" \/ CHAT_ID = ""

\* C17: in a run where the bot credential or the destination identifier is
\* absent, no collection task is ever started, no fetch is issued, no
\* send is attempted and nothing is collected; the only step the run takes
\* is the exit with status 1, and it stops nowhere else.
C17_MissingConfigFatal ==
  ValueAbsent =>
    /\ \A c \in Keys : tpc[c] = "new"
    /\ fetched = <<>>
    /\ log = <<>>
    /\ outcome = NoOutcomes
    /\ news_data = <<>>
    /\ summary_message = <<>>
    /\ pc \in {"main", "exit"}
    /\ pc = "exit" <=> exit_code = 1
    /\ pc = "main" => exit_code = -1
    /\ ~ENABLED Next => pc = "exit"

C17_Witness ==
  /\ pc = "exit"
  /\ exit_code = 1
  /\ BOT_TOKEN = "token"
  /\ CHAT_ID = ""

\* the positions of fetched holding a request for url / a request by task c
RequestsFor(url) == {i \in 1..Len(fetched) : fetched[i].url = url}

RequestsBy(c) == {i \in 1..Len(fetched) : fetched[i].by = c}

\* the positions of log where a send of the message of key begins
SendsOf(key) == {i \in 1..Len(log) : log[i] = Ev("send_begin", key, TRUE)}

MessageKeys == NewsSet \cup {"summary"}

\* C18 as stated: within a run no fetch target is requested more than once
\* and no message has more than one send attempt.
C18_OneRequestPerTarget ==
  /\ \A i, j \in 1..Len(fetched) :
       fetched[i].url = fetched[j].url => i = j
  /\ \A key \in MessageKeys : Cardinality(SendsOf(key)) <= 1

\* C18 as amended: a coroutine requests each of its targets at most once (a
\* news coroutine its one page, the indices coroutine its two pages), also
\* when the request failed or timed out; every target is requested once at
\* most, but for the world page, which the world-stock coroutine and the
\* indices coroutine each request once; no message has more than one send
\* attempt.
C18_OneRequestPerFetchSite ==
  /\ \A i, j \in 1..Len(fetched) : fetched[i] = fetched[j] => i = j
  /\ \A c \in NewsSet :
       /\ Cardinality(RequestsBy(c)) <= 1
       /\ (tpc[c] = "done" /\ Fails(outcome[c])) =>
            Cardinality(RequestsBy(c)) = 1
  /\ Cardinality(RequestsBy("indices")) <= 2
  /\ (tpc["indices"] = "done" /\ Fails(outcome["indices"]) /\ Fails(outcome2)) =>
       Cardinality(RequestsBy("indices")) = 2
  /\ \A i \in 1..Len(fetched) :
       LET url == fetched[i].url
       IN  IF url = WorldUrl
           THEN /\ Cardinality(RequestsFor(url)) <= 2
                /\ {fetched[j].by : j \in RequestsFor(url)}
                     \subseteq {"world_stock", "indices"}
           ELSE Cardinality(RequestsFor(url)) = 1
  /\ tpc["indices"] = "done" => Cardinality(RequestsFor(WorldUrl)) = 2
  /\ \A key \in MessageKeys : Cardinality(SendsOf(key)) <= 1

C18_Witness ==
  /\ pc = "done"
  /\ Len(fetched) = 7
  /\ news_data["economy"] = <<>>
  /\ Cardinality(RequestsBy("economy")) = 1
  /\ Cardinality(RequestsFor(WorldUrl)) = 2
  /\ InLog(Ev("send_end", "stock", FALSE))
  /\ Cardinality(SendsOf("stock")) = 1

\* the positions of log where a send begins
AllSends == {i \in 1..Len(log) : log[i].ev = "send_begin"}

\* the news categories with a block in the summary
SummaryBlocksOf(m) == {c \in NewsSet : LinesOf(m, "title", c) # <<>>}

\* C19: in a run whose summary send succeeded, a detail send is attempted
\* only for a news category whose sequence is non-empty, and never for the
\* indices; once the run has ended, the categories with a detail send
\* attempt are exactly the news categories with a non-empty sequence, which
\* are exactly those with a block in the summary, and the run made
\* 1 + (number of them) send attempts: at most 6, and 1 if all are empty.
C19_DataMessageCorrespondence ==
  SummarySucceeded =>
    /\ {c \in Keys : Attempted(c)} \subseteq NonEmptyNews
    /\ ~Attempted("indices")
    /\ SummaryBlocksOf(summary_message) = NonEmptyNews
    /\ \A i \in AllSends : log[i].key \in MessageKeys
    /\ pc = "done" =>
         /\ {c \in Keys : Attempted(c)} = NonEmptyNews
         /\ Cardinality(AllSends) = 1 + Cardinality(NonEmptyNews)
         /\ Cardinality(AllSends) <= 6
         /\ (\A c \in Keys : news_data[c] = <<>>) => Cardinality(AllSends) = 1

C19_Witness ==
  /\ pc = "done"
  /\ NonEmptyNews = {"economy", "crypto"}
  /\ news_data["indices"] # <<>>
  /\ Cardinality(AllSends) = 3
  /\ Attempted("economy")
  /\ Attempted("crypto")

Terminal == {"done", "failed", "exit"}

\* C20: when every fetch resolves, every send returns and the event loop
\* keeps running what is ready, every run ends delivered, failed or with the
\* configuration exit, whichever fetches and sends fail; by then the six
\* tasks of a run that started them are done.
C20_Termination ==
  <>(/\ pc \in Terminal
     /\ pc # "exit" => \A c \in Keys : tpc[c] = "done")

C20_Witness ==
  /\ pc = "done"
  /\ ~ENABLED Next
  /\ Cardinality(AllSends) = 6
  /\ \A c \in NewsSet : InLog(Ev("send_end", c, FALSE))

====
